---- MODULE Spec2Model ----
(***************************************************************************)
(* watchthis-media-service: the media routes mounted by mountApi, the      *)
(* store behind them and the URL pipeline they call.                       *)
(*                                                                         *)
(* The current routes (requireAuth on every media route, 200 on a known    *)
(* URL, no PATCH/DELETE) are those of src/unnamed/part_001; the earlier    *)
(* mountApi of src/src/api.ts also mounted PATCH and DELETE, which are     *)
(* modelled here as PatchMedia and DeleteMedia.                            *)
(***************************************************************************)
EXTENDS Integers, Sequences, FiniteSets, TLC

VARIABLES store, nextId, req, resp, storeCalls, prior, input, output

vars == <<store, nextId, req, resp, storeCalls, prior, input, output>>

\* the state of the service: the store and the requests in flight
service == <<store, nextId, req, resp, storeCalls, prior>>

\* the argument and the result of a pure function applied on its own
pure == <<input, output>>

(***************************************************************************)
(* Bounds of the model.                                                    *)
(***************************************************************************)
\* number of inbound requests of a behaviour
MaxReq == 2

Requests == 1..MaxReq

(***************************************************************************)
(* Raw URLs. A URL string is the record of its parts; the empty record     *)
(* NoUrl is a missing or empty url (falsy in the handlers).                *)
(***************************************************************************)
Url(scheme, host, path, v, track) ==
    [scheme |-> scheme, host |-> host, path |-> path, v |-> v, track |-> track]

NoUrl == Url("", "", "", "", FALSE)

\* "https://youtu.be/X"
YoutuBeX == Url("https", "youtu.be", "/X", "", FALSE)
\* "https://www.youtube.com/watch?v=X&utm_source=share"
YouTubeWatchX == Url("https", "www.youtube.com", "/watch", "X", TRUE)
\* "https://example.com/path"
ExamplePath == Url("https", "example.com", "/path", "", FALSE)
\* "not-a-url"
NotAUrl == Url("", "", "not-a-url", "", FALSE)
\* "ftp://invalid.com"
FtpUrl == Url("ftp", "invalid.com", "", "", FALSE)

\* the url values a request may carry
RawUrls == {NoUrl, YoutuBeX, YouTubeWatchX, ExamplePath, NotAUrl, FtpUrl}

YouTubeHosts == {"youtube.com", "www.youtube.com", "m.youtube.com", "youtu.be"}

\* the host in lower case
LowerCase(host) ==
    IF host = "EXAMPLE.COM" THEN "example.com"
    ELSE IF host = "WWW.YouTube.com" THEN "www.youtube.com"
    ELSE host

\* the scheme is not looked at
ValidateAnyScheme(u) ==
    IF u = NoUrl
      THEN [isValid |-> FALSE, error |-> "URL is required and must be a string"]
    ELSE IF u.scheme = "" \/ u.host \in {"", ".com"}
      THEN [isValid |-> FALSE, error |-> "Invalid URL format"]
    ELSE [isValid |-> TRUE, error |-> ""]

\* validateUrl(raw) -> { isValid, error? }
validateUrl(u) ==
    IF u = NoUrl
      THEN [isValid |-> FALSE, error |-> "URL is required and must be a string"]
    ELSE IF u.scheme = ""
      THEN [isValid |-> FALSE, error |-> "Invalid URL format"]
    ELSE IF u.scheme \notin {"http", "https"}
      THEN [isValid |-> FALSE, error |-> "URL must use HTTP or HTTPS protocol"]
    ELSE IF u.host \in {"", ".com"}
      THEN [isValid |-> FALSE, error |-> "Invalid URL format"]
    ELSE [isValid |-> TRUE, error |-> ""]

\* detectPlatform(raw) -> "youtube" | "generic"
detectPlatform(u) ==
    IF LowerCase(u.host) \in YouTubeHosts THEN "youtube" ELSE "generic"

\* the video id a YouTube URL names: the path of youtu.be/<id>, else v=
VideoId(u) ==
    IF LowerCase(u.host) = "youtu.be" THEN
        IF u.path = "/X" THEN "X" ELSE IF u.path = "/Y" THEN "Y" ELSE ""
    ELSE u.v

\* the short links folded, then every query parameter dropped
NormalizeDropsQuery(u) ==
    IF LowerCase(u.host) = "youtu.be" /\ VideoId(u) # ""
      THEN Url("https", "www.youtube.com", "/watch", VideoId(u), FALSE)
      ELSE Url(u.scheme, LowerCase(u.host), IF u.path = "/" THEN "" ELSE u.path,
               "", FALSE)

\* the host aliases left as they are
NormalizeWithoutFolding(u) ==
    Url(u.scheme, LowerCase(u.host), IF u.path = "/" THEN "" ELSE u.path, u.v, FALSE)

\* normalizeUrl(raw) -> canonical URL
normalizeUrl(u) ==
    IF detectPlatform(u) = "youtube" /\ VideoId(u) # ""
      THEN Url("https", "www.youtube.com", "/watch", VideoId(u), FALSE)
      ELSE Url(u.scheme, LowerCase(u.host), IF u.path = "/" THEN "" ELSE u.path,
               u.v, FALSE)

(***************************************************************************)
(* The store: MediaItems in creation order.                                *)
(***************************************************************************)
NoItem == [id |-> 0]

\* Media.findOne({ normalizedUrl })
findOne(n) ==
    IF \E i \in 1..Len(store) : store[i].normalizedUrl = n
      THEN store[CHOOSE i \in 1..Len(store) : store[i].normalizedUrl = n]
      ELSE NoItem

\* Media.findById(id)
findById(id) ==
    IF \E i \in 1..Len(store) : store[i].id = id
      THEN store[CHOOSE i \in 1..Len(store) : store[i].id = id]
      ELSE NoItem

\* the record the store persists for a create: the schema's defaults, the
\* id it assigns and its timestamps
NewDocument(data) ==
    [id |-> nextId,
     url |-> data.url,
     normalizedUrl |-> data.normalizedUrl,
     platform |-> data.platform,
     type |-> data.type,
     title |-> "",
     description |-> "",
     extractionStatus |-> data.extractionStatus,
     tags |-> <<>>,
     metadata |-> <<>>,
     createdAt |-> nextId,
     updatedAt |-> nextId]

\* a unique index put on url instead of normalizedUrl
UniqueOnRawUrl(data) ==
    \E i \in 1..Len(store) : store[i].url = data.url

\* no unique index at all
NoUniqueIndex(data) == FALSE

\* the unique index on normalizedUrl rejects the write
UniqueViolation(data) ==
    \E i \in 1..Len(store) : store[i].normalizedUrl = data.normalizedUrl


(***************************************************************************)
(* Requests, credentials and responses.                                    *)
(***************************************************************************)
Ops == {"register", "getById", "list", "search", "extract"}

\* the Authorization a request carries: no header, a token that is no JWT,
\* a token the user service rejects, a token it resolves to a user
Credentials == {"none", "invalid", "rejected", "valid"}

NoUser == [id |-> ""]

\* the user service's answer for a bearer token (GET /api/v1/auth/me)
ResolveIdentity(cred) ==
    IF cred = "valid" THEN [id |-> "507f1f77-bcf8-6cd7-9943-9011abcd1234"] ELSE NoUser

NoResp == [status |-> 0, body |-> [kind |-> "none"]]

\* an answer that tells a bad token from a missing header
AuthenticationReasonLeaked(cred) ==
    [status |-> IF cred = "rejected" THEN 403 ELSE 401,
     body |-> [kind |-> "error", success |-> FALSE,
               error |-> [code |-> IF cred = "none" THEN "AUTHENTICATION_REQUIRED"
                                                    ELSE "INVALID_TOKEN",
                          message |-> "Authentication required"]]]

\* requireAuth's answer when no caller identity resolves
AuthenticationRequired(cred) ==
    [status |-> 401,
     body |-> [kind |-> "error", success |-> FALSE,
               error |-> [code |-> "AUTHENTICATION_REQUIRED",
                          message |-> "Authentication required"]]]

\* res.status(s).json({ error: { message } })
ErrorResponse(s, message) ==
    [status |-> s, body |-> [kind |-> "error", error |-> [message |-> message]]]

\* res.status(s).json(media)
ItemResponse(s, item) ==
    [status |-> s, body |-> [kind |-> "item", item |-> item]]

\* asyncHandler hands a thrown error to the generic error responder
InternalError == ErrorResponse(500, "Internal Server Error")

NoQuery == [q |-> "", platform |-> "", type |-> "", status |-> "",
            page |-> <<>>, limit |-> <<>>]

IdleRequest ==
    [pc |-> "idle", op |-> "none", cred |-> "none", url |-> NoUrl, id |-> 0,
     query |-> NoQuery, media |-> <<>>, total |-> <<>>, failed |-> FALSE]

\* GET /media/:id mounted without requireAuth
ProtectedExceptGetById(op) == op \in {"extract", "search", "register", "list"}

\* the routes mounted with requireAuth in front of the handler
Protected(op) == op \in {"extract", "search", "register", "getById", "list"}

NoInput == [kind |-> "none"]
NoOutput == [kind |-> "none"]

\* no request received yet
NoRequests ==
    /\ req = [r \in Requests |-> IdleRequest]
    /\ resp = [r \in Requests |-> NoResp]
    /\ storeCalls = [r \in Requests |-> 0]
    /\ prior = [r \in Requests |-> {}]

Init ==
    /\ store = <<>>
    /\ nextId = 1
    /\ NoRequests
    /\ input = NoInput
    /\ output = NoOutput

\* the handler of request r ends by sending response a
Respond(r, rq, a) ==
    /\ req' = [req EXCEPT ![r] = [rq EXCEPT !.pc = "done"]]
    /\ resp' = [resp EXCEPT ![r] = a]

\* a request arrives at a media route; requireAuth answers it or lets the
\* handler run
Receive(r) ==
    /\ req[r].pc = "idle"
    /\ \A s \in Requests : s < r => req[s].pc # "idle"
    /\ \E op \in Ops, cred \in Credentials :
         LET rq == [req[r] EXCEPT !.op = op, !.cred = cred] IN
         IF Protected(op) /\ ResolveIdentity(cred) = NoUser
           THEN Respond(r, rq, AuthenticationRequired(cred))
           ELSE /\ req' = [req EXCEPT ![r] = [rq EXCEPT !.pc = "handler"]]
                /\ resp' = resp
    /\ prior' = [prior EXCEPT ![r] = {s \in Requests : req[s].pc = "done"}]
    /\ UNCHANGED <<store, nextId, storeCalls>>
    /\ UNCHANGED pure

(***************************************************************************)
(* POST /media                                                             *)
(***************************************************************************)
\* the canonical URL stored as url
RegisterDataCanonicalUrl(u) ==
    [url |-> normalizeUrl(u),
     normalizedUrl |-> normalizeUrl(u),
     platform |-> detectPlatform(u),
     type |-> "unknown",
     extractionStatus |-> "pending"]

\* an item created as already extracted
RegisterDataCompleted(u) ==
    [url |-> u,
     normalizedUrl |-> normalizeUrl(u),
     platform |-> detectPlatform(u),
     type |-> "unknown",
     extractionStatus |-> "completed"]

\* platform left to the schema default
RegisterDataDefaultPlatform(u) ==
    [url |-> u,
     normalizedUrl |-> normalizeUrl(u),
     platform |-> "generic",
     type |-> "unknown",
     extractionStatus |-> "pending"]

\* the fields the handler passes to Media.create
RegisterData(u) ==
    [url |-> u,
     normalizedUrl |-> normalizeUrl(u),
     platform |-> detectPlatform(u),
     type |-> "unknown",
     extractionStatus |-> "pending"]

\* the earlier answer to a known URL: 409 with the record beside an error
ConflictResponse(existing) ==
    [status |-> 409,
     body |-> [kind |-> "error",
               error |-> [message |-> "Media URL already exists"],
               existing |-> existing]]

\* a known record answered as if it had just been created
ExistingAsCreated(existing) == ItemResponse(201, existing)

\* the answer when findOne returned a record
ExistingResponse(existing) == ItemResponse(200, existing)

\* the lookup issued before the url is validated
RegisterLookupBeforeValidate(r) ==
    /\ req[r].pc = "handler"
    /\ req[r].op = "register"
    /\ \E u \in RawUrls :
         LET rq == [req[r] EXCEPT !.url = u] IN
         IF u = NoUrl
           THEN /\ Respond(r, rq, ErrorResponse(400, "URL is required"))
                /\ storeCalls' = storeCalls
         ELSE IF ~validateUrl(u).isValid
           THEN /\ Respond(r, rq, ErrorResponse(400, validateUrl(u).error))
                /\ storeCalls' = [storeCalls EXCEPT ![r] = @ + 1]
         ELSE /\ req' = [req EXCEPT ![r] = [rq EXCEPT !.pc = "findOne"]]
              /\ resp' = resp
              /\ storeCalls' = storeCalls
    /\ UNCHANGED <<store, nextId, prior>>
    /\ UNCHANGED pure

\* the url checks in front of the try block
RegisterValidate(r) ==
    /\ req[r].pc = "handler"
    /\ req[r].op = "register"
    /\ \E u \in RawUrls :
         LET rq == [req[r] EXCEPT !.url = u] IN
         IF u = NoUrl
           THEN Respond(r, rq, ErrorResponse(400, "URL is required"))
         ELSE IF ~validateUrl(u).isValid
           THEN Respond(r, rq, ErrorResponse(400, validateUrl(u).error))
         ELSE /\ req' = [req EXCEPT ![r] = [rq EXCEPT !.pc = "findOne"]]
              /\ resp' = resp
    /\ UNCHANGED <<store, nextId, storeCalls, prior>>
    /\ UNCHANGED pure

\* a known record brought up to date with the url just submitted
RegisterFindOneUpserts(r) ==
    /\ req[r].pc = "findOne"
    /\ storeCalls' = [storeCalls EXCEPT ![r] = @ + 1]
    /\ LET existingMedia == findOne(normalizeUrl(req[r].url))
           touched == [existingMedia EXCEPT !.url = req[r].url,
                                            !.updatedAt = @ + 1] IN
         IF existingMedia # NoItem
           THEN /\ Respond(r, req[r], ExistingResponse(touched))
                /\ store' = [i \in 1..Len(store) |->
                               IF store[i].id = existingMedia.id
                                 THEN touched ELSE store[i]]
           ELSE /\ req' = [req EXCEPT ![r].pc = "create"]
                /\ resp' = resp
                /\ store' = store
    /\ UNCHANGED <<nextId, prior>>
    /\ UNCHANGED pure

\* the lookup made by the raw url
RegisterFindOneByUrl(r) ==
    /\ req[r].pc = "findOne"
    /\ storeCalls' = [storeCalls EXCEPT ![r] = @ + 1]
    /\ LET found == {i \in 1..Len(store) : store[i].url = req[r].url} IN
         IF found # {}
           THEN Respond(r, req[r], ExistingResponse(store[CHOOSE i \in found : TRUE]))
           ELSE /\ req' = [req EXCEPT ![r].pc = "create"]
                /\ resp' = resp
    /\ UNCHANGED <<store, nextId, prior>>
    /\ UNCHANGED pure

\* await Media.findOne({ normalizedUrl }) and the branch on its result
RegisterFindOne(r) ==
    /\ req[r].pc = "findOne"
    /\ storeCalls' = [storeCalls EXCEPT ![r] = @ + 1]
    /\ LET existingMedia == findOne(normalizeUrl(req[r].url)) IN
         IF existingMedia # NoItem
           THEN Respond(r, req[r], ExistingResponse(existingMedia))
           ELSE /\ req' = [req EXCEPT ![r].pc = "create"]
                /\ resp' = resp
    /\ UNCHANGED <<store, nextId, prior>>
    /\ UNCHANGED pure

\* await Media.create({...}); a rejected create is rethrown by the catch
RegisterCreate(r) ==
    /\ req[r].pc = "create"
    /\ storeCalls' = [storeCalls EXCEPT ![r] = @ + 1]
    /\ LET data == RegisterData(req[r].url) IN
         IF UniqueViolation(data)
           THEN /\ Respond(r, req[r], InternalError)
                /\ UNCHANGED <<store, nextId>>
           ELSE /\ store' = Append(store, NewDocument(data))
                /\ nextId' = nextId + 1
                /\ Respond(r, req[r], ItemResponse(201, NewDocument(data)))
    /\ UNCHANGED prior
    /\ UNCHANGED pure

(***************************************************************************)
(* GET /media/:id                                                          *)
(***************************************************************************)
\* a lookup that takes the first stored item, whatever the id
GetByIdFindFirst(r) ==
    /\ req[r].pc = "handler"
    /\ req[r].op = "getById"
    /\ \E id \in 1..MaxReq :
         LET media == IF store = <<>> THEN NoItem ELSE store[1]
             rq == [req[r] EXCEPT !.id = id] IN
         IF media = NoItem
           THEN Respond(r, rq, ErrorResponse(404, "Media not found"))
           ELSE Respond(r, rq, ItemResponse(200, media))
    /\ storeCalls' = [storeCalls EXCEPT ![r] = @ + 1]
    /\ UNCHANGED <<store, nextId, prior>>
    /\ UNCHANGED pure

\* a not-found branch that sets no response and ends
GetByIdNotFoundUnanswered(r) ==
    /\ req[r].pc = "handler"
    /\ req[r].op = "getById"
    /\ \E id \in 1..MaxReq :
         LET media == findById(id)
             rq == [req[r] EXCEPT !.id = id] IN
         IF media = NoItem
           THEN /\ req' = [req EXCEPT ![r] = [rq EXCEPT !.pc = "ended"]]
                /\ resp' = resp
           ELSE Respond(r, rq, ItemResponse(200, media))
    /\ storeCalls' = [storeCalls EXCEPT ![r] = @ + 1]
    /\ UNCHANGED <<store, nextId, prior>>
    /\ UNCHANGED pure

\* an existence check awaited before the lookup
GetByIdExistsThenFind(r) ==
    /\ req[r].pc = "handler"
    /\ req[r].op = "getById"
    /\ \E id \in 1..MaxReq :
         LET media == findById(id)
             rq == [req[r] EXCEPT !.id = id] IN
         IF media = NoItem
           THEN /\ Respond(r, rq, ErrorResponse(404, "Media not found"))
                /\ storeCalls' = [storeCalls EXCEPT ![r] = @ + 1]
           ELSE /\ Respond(r, rq, ItemResponse(200, media))
                /\ storeCalls' = [storeCalls EXCEPT ![r] = @ + 2]
    /\ UNCHANGED <<store, nextId, prior>>
    /\ UNCHANGED pure

GetById(r) ==
    /\ req[r].pc = "handler"
    /\ req[r].op = "getById"
    /\ \E id \in 1..MaxReq :
         LET media == findById(id)
             rq == [req[r] EXCEPT !.id = id] IN
         IF media = NoItem
           THEN Respond(r, rq, ErrorResponse(404, "Media not found"))
           ELSE Respond(r, rq, ItemResponse(200, media))
    /\ storeCalls' = [storeCalls EXCEPT ![r] = @ + 1]
    /\ UNCHANGED <<store, nextId, prior>>
    /\ UNCHANGED pure

(***************************************************************************)
(* GET /media/extract                                                      *)
(***************************************************************************)
Extraction(u) ==
    [url |-> u,
     normalizedUrl |-> normalizeUrl(u),
     platform |-> detectPlatform(u),
     type |-> "unknown",
     title |-> "", description |-> "", thumbnail |-> "", duration |-> "",
     extractionStatus |-> "pending",
     message |-> "Metadata extraction not yet implemented"]

ExtractionResponse(u) ==
    [status |-> 200, body |-> [kind |-> "extraction", extraction |-> Extraction(u)]]

\* a preview that saves what it extracted
ExtractAndStore(r) ==
    /\ req[r].pc = "handler"
    /\ req[r].op = "extract"
    /\ \E u \in RawUrls :
         LET rq == [req[r] EXCEPT !.url = u] IN
         IF u = NoUrl
           THEN /\ Respond(r, rq, ErrorResponse(400, "URL parameter is required"))
                /\ UNCHANGED <<store, nextId>>
         ELSE IF ~validateUrl(u).isValid
           THEN /\ Respond(r, rq, ErrorResponse(400, validateUrl(u).error))
                /\ UNCHANGED <<store, nextId>>
         ELSE /\ Respond(r, rq, ExtractionResponse(u))
              /\ store' = IF UniqueViolation(RegisterData(u)) THEN store
                          ELSE Append(store, NewDocument(RegisterData(u)))
              /\ nextId' = nextId + 1
    /\ UNCHANGED <<storeCalls, prior>>
    /\ UNCHANGED pure

Extract(r) ==
    /\ req[r].pc = "handler"
    /\ req[r].op = "extract"
    /\ \E u \in RawUrls :
         LET rq == [req[r] EXCEPT !.url = u] IN
         IF u = NoUrl
           THEN Respond(r, rq, ErrorResponse(400, "URL parameter is required"))
         ELSE IF ~validateUrl(u).isValid
           THEN Respond(r, rq, ErrorResponse(400, validateUrl(u).error))
         ELSE Respond(r, rq, ExtractionResponse(u))
    /\ UNCHANGED <<store, nextId, storeCalls, prior>>
    /\ UNCHANGED pure

(***************************************************************************)
(* GET /media and GET /media/search                                        *)
(***************************************************************************)
DefaultPage == 1
DefaultLimit == 20
MaxLimit == 100

Min(a, b) == IF a < b THEN a ELSE b

\* parseInt(x) || d : a query parameter is <<>> (absent or not a number)
\* or <<n>>
ParseIntOr(x, d) == IF x = <<>> \/ x[1] = 0 THEN d ELSE x[1]

PageOf(query) == ParseIntOr(query.page, DefaultPage)
LimitOf(query) == Min(ParseIntOr(query.limit, DefaultLimit), MaxLimit)
SkipOf(query) == (PageOf(query) - 1) * LimitOf(query)

Query(q, platform, type, status, page, limit) ==
    [q |-> q, platform |-> platform, type |-> type, status |-> status,
     page |-> page, limit |-> limit]

\* the query strings a list or search request may carry
Queries ==
    {NoQuery,
     Query("", "youtube", "", "pending", <<>>, <<1>>),
     Query("cats", "", "unknown", "", <<2>>, <<1>>)}

\* title or description contains q (a text is one word here)
TextContains(item, q) == item.title = q \/ item.description = q

\* the where clause of search, which has no status, used for list as well
MatchesIgnoringStatus(item, op, query) ==
    /\ query.platform # "" => item.platform = query.platform
    /\ query.type # "" => item.type = query.type
    /\ (op = "search" /\ query.q # "") => TextContains(item, query.q)

\* the where clause each handler builds from the query string
Matches(item, op, query) ==
    /\ query.platform # "" => item.platform = query.platform
    /\ query.type # "" => item.type = query.type
    /\ (op = "list" /\ query.status # "") => item.extractionStatus = query.status
    /\ (op = "search" /\ query.q # "") => TextContains(item, query.q)

RECURSIVE Reverse(_)
Reverse(s) == IF s = <<>> THEN <<>> ELSE Append(Reverse(Tail(s)), Head(s))

\* the matching items, newest first
Matching(op, query) ==
    Reverse(SelectSeq(store, LAMBDA item : Matches(item, op, query)))

Max(a, b) == IF a > b THEN a ELSE b

\* findMany({ where, orderBy: { createdAt: "desc" }, skip, take }): a
\* negative take counts from the end of the ordered list
FindMany(op, query) ==
    LET ordered == Matching(op, query)
        skip == SkipOf(query)
        take == LimitOf(query) IN
    IF take >= 0
      THEN SubSeq(ordered, skip + 1, Min(skip + take, Len(ordered)))
      ELSE SubSeq(ordered, Max(Len(ordered) - skip + take + 1, 1), Len(ordered) - skip)

\* countDocuments(where)
CountDocuments(op, query) == Len(Matching(op, query))

\* Math.ceil(total / limit), total >= 0 and limit # 0
Ceil(total, limit) ==
    IF limit > 0 THEN (total + limit - 1) \div limit ELSE -(total \div (-limit))

ListResponse(op, query, media, total) ==
    [status |-> 200,
     body |-> [kind |-> op,
               media |-> media,
               pagination |->
                 [page |-> PageOf(query),
                  limit |-> LimitOf(query),
                  total |-> total,
                  totalPages |-> Ceil(total, LimitOf(query)),
                  hasNext |-> PageOf(query) < Ceil(total, LimitOf(query)),
                  hasPrev |-> PageOf(query) > 1]]]

\* the handler reads the query string and issues both reads of Promise.all
ListStart(r) ==
    /\ req[r].pc = "handler"
    /\ req[r].op \in {"list", "search"}
    /\ \E query \in Queries :
         req' = [req EXCEPT ![r].query = query, ![r].pc = "reads"]
    /\ storeCalls' = [storeCalls EXCEPT ![r] = @ + 2]
    /\ UNCHANGED <<store, nextId, resp, prior>>
    /\ UNCHANGED pure

\* one read of Promise.all is answered by the store; the response goes out
\* when both are
ListReads(r, rq) ==
    IF rq.media # <<>> /\ rq.total # <<>>
      THEN Respond(r, rq, ListResponse(rq.op, rq.query, rq.media[1], rq.total[1]))
      ELSE /\ req' = [req EXCEPT ![r] = rq]
           /\ resp' = resp

ListFindMany(r) ==
    /\ req[r].pc = "reads"
    /\ req[r].media = <<>>
    /\ ListReads(r, [req[r] EXCEPT !.media = <<FindMany(req[r].op, req[r].query)>>])
    /\ UNCHANGED <<store, nextId, storeCalls, prior>>
    /\ UNCHANGED pure

ListCount(r) ==
    /\ req[r].pc = "reads"
    /\ req[r].total = <<>>
    /\ ListReads(r, [req[r] EXCEPT !.total = <<CountDocuments(req[r].op, req[r].query)>>])
    /\ UNCHANGED <<store, nextId, storeCalls, prior>>
    /\ UNCHANGED pure

(***************************************************************************)
(* PATCH /media/:id and DELETE /media/:id, as the earlier mountApi mounted *)
(* them (no requireAuth in front).                                         *)
(***************************************************************************)
\* the request bodies a PATCH may carry
PatchBodies ==
    {[title |-> "cats"],
     [extractionStatus |-> "completed"],
     [url |-> ExamplePath, normalizedUrl |-> ExamplePath, _id |-> 99,
      createdAt |-> 0, updatedAt |-> 0, platform |-> "generic"]}

\* the request body applied as it came
StripNothing(updates) == updates

\* delete updates.url ... delete updates.updatedAt
StripProtected(updates) ==
    [f \in DOMAIN updates \ {"url", "normalizedUrl", "_id", "createdAt", "updatedAt"}
       |-> updates[f]]

\* findByIdAndUpdate(id, updates, { new: true })
Updated(item, updates) ==
    [f \in DOMAIN item |->
       IF f \in DOMAIN updates THEN updates[f]
       ELSE IF f = "updatedAt" THEN item.updatedAt + 1
       ELSE item[f]]

PatchMedia(r) ==
    /\ req[r].pc = "idle"
    /\ \A s \in Requests : s < r => req[s].pc # "idle"
    /\ \E id \in 1..MaxReq, body \in PatchBodies :
         LET rq == [req[r] EXCEPT !.op = "patch", !.id = id]
             updates == StripProtected(body) IN
         IF findById(id) = NoItem
           THEN /\ Respond(r, rq, ErrorResponse(404, "Media not found"))
                /\ store' = store
           ELSE /\ store' = [i \in 1..Len(store) |->
                               IF store[i].id = id
                                 THEN Updated(store[i], updates) ELSE store[i]]
                /\ Respond(r, rq, ItemResponse(200, Updated(findById(id), updates)))
    /\ storeCalls' = [storeCalls EXCEPT ![r] = @ + 1]
    /\ prior' = [prior EXCEPT ![r] = {s \in Requests : req[s].pc = "done"}]
    /\ UNCHANGED nextId
    /\ UNCHANGED pure

DeleteMedia(r) ==
    /\ req[r].pc = "idle"
    /\ \A s \in Requests : s < r => req[s].pc # "idle"
    /\ \E id \in 1..MaxReq :
         LET rq == [req[r] EXCEPT !.op = "delete", !.id = id] IN
         IF findById(id) = NoItem
           THEN /\ Respond(r, rq, ErrorResponse(404, "Media not found"))
                /\ store' = store
           ELSE /\ store' = SelectSeq(store, LAMBDA item : item.id # id)
                /\ Respond(r, rq, [status |-> 204, body |-> [kind |-> "empty"]])
    /\ storeCalls' = [storeCalls EXCEPT ![r] = @ + 1]
    /\ prior' = [prior EXCEPT ![r] = {s \in Requests : req[s].pc = "done"}]
    /\ UNCHANGED nextId
    /\ UNCHANGED pure

(***************************************************************************)
(* The service: the routes mountApi mounts.                                *)
(***************************************************************************)
\* the routes with PATCH and DELETE mounted as well
NextWithPatchAndDelete ==
    \/ \E r \in Requests : Receive(r)
    \/ \E r \in Requests : Extract(r)
    \/ \E r \in Requests : ListStart(r)
    \/ \E r \in Requests : ListFindMany(r)
    \/ \E r \in Requests : ListCount(r)
    \/ \E r \in Requests : RegisterValidate(r)
    \/ \E r \in Requests : RegisterFindOne(r)
    \/ \E r \in Requests : RegisterCreate(r)
    \/ \E r \in Requests : GetById(r)
    \/ \E r \in Requests : PatchMedia(r)
    \/ \E r \in Requests : DeleteMedia(r)

Next ==
    \/ \E r \in Requests : Receive(r)
    \/ \E r \in Requests : Extract(r)
    \/ \E r \in Requests : ListStart(r)
    \/ \E r \in Requests : ListFindMany(r)
    \/ \E r \in Requests : ListCount(r)
    \/ \E r \in Requests : RegisterValidate(r)
    \/ \E r \in Requests : RegisterFindOne(r)
    \/ \E r \in Requests : RegisterCreate(r)
    \/ \E r \in Requests : GetById(r)

Spec == Init /\ [][Next]_vars

(***************************************************************************)
(* The earlier service: the routes of the first mountApi, with no          *)
(* requireAuth, 409 on a known URL, and PATCH and DELETE.                  *)
(***************************************************************************)
\* a request arrives at a route and its handler runs
LegacyReceive(r) ==
    /\ req[r].pc = "idle"
    /\ \A s \in Requests : s < r => req[s].pc # "idle"
    /\ \E op \in Ops :
         req' = [req EXCEPT ![r].op = op, ![r].pc = "handler"]
    /\ prior' = [prior EXCEPT ![r] = {s \in Requests : req[s].pc = "done"}]
    /\ UNCHANGED <<store, nextId, resp, storeCalls>>
    /\ UNCHANGED pure

\* res.status(409).json({ error, existing })
LegacyExistingResponse(existing) ==
    [status |-> 409,
     body |-> [kind |-> "error",
               error |-> [message |-> "Media URL already exists"],
               existing |-> existing]]

\* await Media.findOne({ normalizedUrl }) and the branch on its result
LegacyRegisterFindOne(r) ==
    /\ req[r].pc = "findOne"
    /\ storeCalls' = [storeCalls EXCEPT ![r] = @ + 1]
    /\ LET existingMedia == findOne(normalizeUrl(req[r].url)) IN
         IF existingMedia # NoItem
           THEN Respond(r, req[r], LegacyExistingResponse(existingMedia))
           ELSE /\ req' = [req EXCEPT ![r].pc = "create"]
                /\ resp' = resp
    /\ UNCHANGED <<store, nextId, prior>>
    /\ UNCHANGED pure

LegacyNext ==
    \/ \E r \in Requests : LegacyReceive(r)
    \/ \E r \in Requests : Extract(r)
    \/ \E r \in Requests : ListStart(r)
    \/ \E r \in Requests : ListFindMany(r)
    \/ \E r \in Requests : ListCount(r)
    \/ \E r \in Requests : RegisterValidate(r)
    \/ \E r \in Requests : LegacyRegisterFindOne(r)
    \/ \E r \in Requests : RegisterCreate(r)
    \/ \E r \in Requests : GetById(r)
    \/ \E r \in Requests : PatchMedia(r)
    \/ \E r \in Requests : DeleteMedia(r)

LegacySpec == Init /\ [][LegacyNext]_vars

(***************************************************************************)
(* The service with a store that may fail: a store call of a handler is    *)
(* rejected for a reason other than the unique index (connection lost,     *)
(* timeout).  POST /media catches and rethrows, the other handlers have no *)
(* catch; asyncHandler hands the error to the error responder.             *)
(***************************************************************************)
\* request r is waiting for the store
AwaitingStore(r) ==
    \/ req[r].pc \in {"findOne", "create", "reads"}
    \/ req[r].pc = "handler" /\ req[r].op = "getById"

\* a catch block that issues the rejected call again
StoreFailureRetried(r) ==
    /\ AwaitingStore(r)
    /\ ~req[r].failed
    /\ req' = [req EXCEPT ![r].failed = TRUE]
    /\ storeCalls' = [storeCalls EXCEPT ![r] = @ + 1]
    /\ UNCHANGED <<store, nextId, resp, prior>>
    /\ UNCHANGED pure

\* the awaited store call rejects: catch (error) { throw error; }
StoreFailure(r) ==
    /\ AwaitingStore(r)
    /\ Respond(r, [req[r] EXCEPT !.failed = TRUE], InternalError)
    /\ storeCalls' = [storeCalls EXCEPT ![r] = IF req[r].pc = "reads" THEN @ ELSE @ + 1]
    /\ UNCHANGED <<store, nextId, prior>>
    /\ UNCHANGED pure

FaultyNext ==
    \/ \E r \in Requests : Receive(r)
    \/ \E r \in Requests : Extract(r)
    \/ \E r \in Requests : ListStart(r)
    \/ \E r \in Requests : ListFindMany(r)
    \/ \E r \in Requests : ListCount(r)
    \/ \E r \in Requests : RegisterValidate(r)
    \/ \E r \in Requests : RegisterFindOne(r)
    \/ \E r \in Requests : RegisterCreate(r)
    \/ \E r \in Requests : GetById(r)
    \/ \E r \in Requests : StoreFailure(r)

FaultySpec == Init /\ [][FaultyNext]_vars

\* the next step of the handler of request r: the event loop runs every
\* continuation whose store call has been answered
Handle(r) ==
    \/ Extract(r)
    \/ ListStart(r)
    \/ ListFindMany(r)
    \/ ListCount(r)
    \/ RegisterValidate(r)
    \/ RegisterFindOne(r)
    \/ RegisterCreate(r)
    \/ GetById(r)
    \/ StoreFailure(r)

\* the store answers every call, with a result or with an error
StoreAnswers == \A r \in Requests : WF_vars(Handle(r))

FairFaultySpec == Init /\ [][FaultyNext]_vars /\ StoreAnswers

(***************************************************************************)
(* The service started on a collection that already holds items, one of    *)
(* them with its extraction completed.                                     *)
(***************************************************************************)
\* a stored document: created n-th from url u, extraction in state status
StoredItem(n, u, status) ==
    [id |-> n,
     url |-> u,
     normalizedUrl |-> normalizeUrl(u),
     platform |-> detectPlatform(u),
     type |-> "unknown",
     title |-> "",
     description |-> "",
     extractionStatus |-> status,
     tags |-> <<>>,
     metadata |-> <<>>,
     createdAt |-> n,
     updatedAt |-> n]

StoredCollections ==
    {<<StoredItem(1, YoutuBeX, "pending")>>,
     <<StoredItem(1, YoutuBeX, "completed"), StoredItem(2, ExamplePath, "pending")>>}

StoredInit ==
    /\ store \in StoredCollections
    /\ nextId = Len(store) + 1
    /\ NoRequests
    /\ input = NoInput
    /\ output = NoOutput

StoredSpec == StoredInit /\ [][Next]_vars

(***************************************************************************)
(* The URL pipeline on its own: validateUrl, normalizeUrl and              *)
(* detectPlatform applied to the url of a request body, as POST /media     *)
(* applies them, and normalizeUrl applied to its own result.               *)
(***************************************************************************)
VideoIds == {"X", "Y"}

Schemes == {"http", "https", "ftp", "javascript", "data", ""}
Hosts == YouTubeHosts \cup {"example.com", "EXAMPLE.COM", "WWW.YouTube.com", "", ".com"}
Paths == {"", "/", "/watch", "/X", "/Y", "/path"}

\* the url strings the pipeline is applied to
UrlInputs ==
    {Url(scheme, host, path, v, track) :
       scheme \in Schemes, host \in Hosts, path \in Paths,
       v \in VideoIds \cup {""}, track \in BOOLEAN}

\* the forms of a link to the video x
AliasForms(x) ==
    {Url("https", "youtu.be", IF x = "X" THEN "/X" ELSE "/Y", "", FALSE),
     Url("https", "www.youtube.com", "/watch", x, FALSE),
     Url("https", "m.youtube.com", "/watch", x, FALSE)}

\* a request body: the url, a url to compare it with, and a platform the
\* caller sends along
UrlInit ==
    /\ store = <<>>
    /\ nextId = 1
    /\ NoRequests
    /\ input \in {[kind |-> "urls", a |-> a, b |-> b, platform |-> p] :
                    a \in UrlInputs,
                    b \in UNION {AliasForms(x) : x \in VideoIds},
                    p \in {"", "youtube"}}
    /\ output = NoOutput

\* const { url } = req.body; validateUrl(url); normalizeUrl(url);
\* detectPlatform(url); the fields for Media.create
UrlPipeline(body) ==
    [kind |-> "urls",
     validation |-> validateUrl(body.a),
     normalizedUrl |-> normalizeUrl(body.a),
     platform |-> detectPlatform(body.a),
     data |-> RegisterData(body.a),
     again |-> normalizeUrl(normalizeUrl(body.a)),
     other |-> normalizeUrl(body.b)]

ApplyUrlPipeline ==
    /\ input.kind = "urls"
    /\ output = NoOutput
    /\ output' = UrlPipeline(input)
    /\ UNCHANGED <<input, service>>

UrlNext == ApplyUrlPipeline

UrlSpec == UrlInit /\ [][UrlNext]_vars

(***************************************************************************)
(* GET /media asked page after page with one filter and one limit, on a    *)
(* collection nothing else writes to.                                      *)
(***************************************************************************)
MaxPages == 4

\* "https://example.com/X"
ExampleX == Url("https", "example.com", "/X", "", FALSE)

PagedCollections ==
    {<<>>,
     <<StoredItem(1, YoutuBeX, "pending")>>,
     <<StoredItem(1, YoutuBeX, "completed"), StoredItem(2, ExamplePath, "pending")>>,
     <<StoredItem(1, YoutuBeX, "pending"), StoredItem(2, ExamplePath, "completed"),
       StoredItem(3, ExampleX, "pending")>>,
     <<StoredItem(1, ExamplePath, "pending"), StoredItem(2, ExampleX, "pending"),
       StoredItem(3, YoutuBeX, "pending")>>}

\* ?platform=&status=&limit= of the pages asked for
PagedQueries ==
    {Query("", platform, "", status, <<>>, limit) :
       platform \in {"", "generic"}, status \in {"", "pending"},
       limit \in {<<>>, <<1>>, <<2>>, <<-1>>}}

PagedInit ==
    /\ store \in PagedCollections
    /\ nextId = Len(store) + 1
    /\ NoRequests
    /\ input \in {[kind |-> "pages", query |-> query] : query \in PagedQueries}
    /\ output = [kind |-> "pages", pages |-> <<>>]

\* the answer to GET /media with this query string; the store rejects a
\* negative skip and the error goes to the error responder
ListAnswer(query) ==
    IF SkipOf(query) < 0
      THEN InternalError
      ELSE ListResponse("list", query, FindMany("list", query),
                        CountDocuments("list", query))

\* the next page is asked for and answered
FetchPage ==
    /\ input.kind = "pages"
    /\ Len(output.pages) < MaxPages
    /\ output' = [output EXCEPT !.pages =
                    Append(@, ListAnswer([input.query EXCEPT
                                            !.page = <<Len(output.pages) + 1>>]))]
    /\ UNCHANGED <<input, service>>

PagedNext == FetchPage

PagedSpec == PagedInit /\ [][PagedNext]_vars

(***************************************************************************)
(* The pagination arithmetic of GET /media and GET /media/search on its    *)
(* own, over the integers a query string can carry.                        *)
(***************************************************************************)
MaxPageInput == 3

\* ?page= : absent or not a number, or an integer
PageInputs == {<<>>} \cup {<<n>> : n \in -MaxPageInput..MaxPageInput}

\* ?limit= : absent or not a number, or an integer
LimitInputs == {<<>>, <<-1>>, <<0>>, <<1>>, <<20>>, <<99>>, <<100>>, <<101>>, <<150>>}

PaginationInit ==
    /\ store = <<>>
    /\ nextId = 1
    /\ NoRequests
    /\ input \in {[kind |-> "pagination", page |-> p, limit |-> l] :
                    p \in PageInputs, l \in LimitInputs}
    /\ output = NoOutput

\* const page = ...; const limit = ...; const skip = ...
ApplyPagination ==
    /\ input.kind = "pagination"
    /\ output = NoOutput
    /\ output' = [kind |-> "pagination",
                  page |-> PageOf(input),
                  limit |-> LimitOf(input),
                  skip |-> SkipOf(input)]
    /\ UNCHANGED <<input, service>>

PaginationNext == ApplyPagination

PaginationSpec == PaginationInit /\ [][PaginationNext]_vars

(***************************************************************************)
(* Properties.                                                             *)
(***************************************************************************)
Done(r) == req[r].pc = "done"

\* r is a register request whose handler ran on a url that passed validateUrl
ValidRegister(r) ==
    /\ req[r].op = "register"
    /\ req[r].pc \in {"findOne", "create", "done"}
    /\ validateUrl(req[r].url).isValid

\* r carried no credential that resolves to a caller
Unauthenticated(r) ==
    /\ req[r].pc # "idle"
    /\ req[r].op \in Ops
    /\ ResolveIdentity(req[r].cred) = NoUser

\* the stored items whose canonical URL is n
StoredFor(n) == {i \in 1..Len(store) : store[i].normalizedUrl = n}

\* C1: in every reachable state no two stored MediaItems have the same
\* normalizedUrl.
C1_UniqueNormalizedUrl ==
    \A i, j \in 1..Len(store) :
        i # j => store[i].normalizedUrl # store[j].normalizedUrl

\* two registrations of one canonical URL both went as far as create, and
\* one item is stored
C1_Witness ==
    /\ Len(store) = 1
    /\ \E r, s \in Requests :
         /\ r # s
         /\ ValidRegister(r) /\ ValidRegister(s)
         /\ Done(r) /\ Done(s)
         /\ storeCalls[r] = 2 /\ storeCalls[s] = 2
         /\ req[r].url # req[s].url
         /\ normalizeUrl(req[r].url) = normalizeUrl(req[s].url)

\* C2: registrations of the same URL from N callers leave exactly one
\* persisted item and N successful responses (201 or 200) that all carry
\* that item's id; none of them is answered with a storage error.
C2_AllRegistrationsSucceed ==
    \A r \in Requests :
        (ValidRegister(r) /\ Done(r)) =>
            /\ resp[r].status \in {200, 201}
            /\ Cardinality(StoredFor(normalizeUrl(req[r].url))) = 1
            /\ \A i \in StoredFor(normalizeUrl(req[r].url)) :
                   resp[r].body.item.id = store[i].id

\* C3: registering the same URL twice in sequence answers 201 and then
\* 200 with no error field and the same id, url and platform; one item is
\* stored for that canonical URL and the second registration wrote
\* nothing.
C3_RegistrationIdempotent ==
    \A r, s \in Requests :
        ( /\ r \in prior[s]
          /\ ValidRegister(r) /\ ValidRegister(s) /\ Done(s)
          /\ req[r].url = req[s].url
          /\ resp[r].status = 201 ) =>
            /\ resp[s].status = 200
            /\ resp[s].body.kind = "item"
            /\ resp[s].body.item.id = resp[r].body.item.id
            /\ resp[s].body.item.url = req[s].url
            /\ resp[s].body.item.platform = resp[r].body.item.platform
            /\ Cardinality(StoredFor(normalizeUrl(req[s].url))) = 1
            /\ findById(resp[r].body.item.id) = resp[r].body.item
            /\ storeCalls[s] = 1

\* the second of two registrations in sequence of one URL has been answered
C3_Witness ==
    \E r, s \in Requests :
        /\ r \in prior[s]
        /\ ValidRegister(r) /\ ValidRegister(s) /\ Done(s)
        /\ req[r].url = req[s].url
        /\ resp[r].status = 201
        /\ resp[s].status = 200

\* C4: at most one 201 is ever issued for a canonical URL, also when
\* several registrations saw "not found" and all attempted the create.
C4_AtMostOneCreated ==
    \A r, s \in Requests :
        ( /\ r # s
          /\ ValidRegister(r) /\ ValidRegister(s)
          /\ normalizeUrl(req[r].url) = normalizeUrl(req[s].url)
          /\ resp[r].status = 201 ) => resp[s].status # 201

\* both registrations saw "not found" and attempted the create; one was
\* answered 201 and the other was not
C4_Witness ==
    \E r, s \in Requests :
        /\ r # s
        /\ ValidRegister(r) /\ ValidRegister(s)
        /\ normalizeUrl(req[r].url) = normalizeUrl(req[s].url)
        /\ storeCalls[r] = 2 /\ storeCalls[s] = 2
        /\ resp[r].status = 201
        /\ Done(s) /\ resp[s].status # 201

\* C5: a register request whose url fails validateUrl is answered 400 with
\* the validator's reason (a missing url with "URL is required") before any
\* store access: no store call is issued for it and the store is unchanged.
C5_InvalidUrlRejectedBeforeStore ==
    [][\A r \in Requests :
         ( /\ req[r].pc = "handler"
           /\ req'[r].op = "register"
           /\ req'[r].pc # "handler"
           /\ ~validateUrl(req'[r].url).isValid ) =>
             /\ req'[r].pc = "done"
             /\ resp'[r].status = 400
             /\ resp'[r].body.kind = "error"
             /\ req'[r].url # NoUrl =>
                  resp'[r].body.error.message = validateUrl(req'[r].url).error
             /\ storeCalls'[r] = 0
             /\ store' = store]_vars

\* "ftp://invalid.com" was rejected while an item was stored
C5_Witness ==
    /\ Len(store) >= 1
    /\ \E r \in Requests :
         /\ req[r].op = "register" /\ Done(r)
         /\ req[r].url = FtpUrl
         /\ resp[r].status = 400
         /\ storeCalls[r] = 0

C7_UniformAuthenticationFailure ==
    \A r, s \in Requests :
        (Unauthenticated(r) /\ Unauthenticated(s)) =>
            /\ resp[r] = resp[s]
            /\ resp[r].status = 401
            /\ resp[r].body.error.code = "AUTHENTICATION_REQUIRED"

\* a request without a header and one with a rejected token were answered
C7_Witness ==
    \E r, s \in Requests :
        /\ Unauthenticated(r) /\ Unauthenticated(s)
        /\ req[r].cred = "none"
        /\ req[s].cred \in {"invalid", "rejected"}
        /\ Done(r) /\ Done(s)

C9_ExtractionStatusPending ==
    [][\A i \in 1..Len(store') :
         IF findById(store'[i].id) # NoItem
           THEN store'[i].extractionStatus = findById(store'[i].id).extractionStatus
           ELSE store'[i].extractionStatus = "pending"]_vars

\* a known URL was registered again and its item is still pending
C9_Witness ==
    \E r \in Requests :
        /\ req[r].op = "register"
        /\ resp[r].status = 200
        /\ findById(resp[r].body.item.id).extractionStatus = "pending"

C13_ExtractPersistsNothing ==
    [][\A r \in Requests :
         ( /\ req[r].pc = "handler"
           /\ req[r].op = "extract"
           /\ req'[r].pc # "handler" ) =>
             /\ req'[r].pc = "done"
             /\ store' = store
             /\ nextId' = nextId
             /\ storeCalls'[r] = 0
             /\ IF validateUrl(req'[r].url).isValid
                  THEN /\ resp'[r].status = 200
                       /\ resp'[r].body.extraction.url = req'[r].url
                       /\ resp'[r].body.extraction.normalizedUrl
                            = normalizeUrl(req'[r].url)
                       /\ resp'[r].body.extraction.platform
                            = detectPlatform(req'[r].url)
                       /\ resp'[r].body.extraction.extractionStatus = "pending"
                  ELSE /\ resp'[r].status = 400
                       /\ resp'[r].body.kind = "error"]_vars

\* a preview of a URL that is not stored was answered 200 beside a stored
\* item
C13_Witness ==
    /\ Len(store) = 1
    /\ \E r \in Requests :
         /\ req[r].op = "extract"
         /\ resp[r].status = 200
         /\ req[r].url = YouTubeWatchX
         /\ findOne(normalizeUrl(req[r].url)) = NoItem

\* the pipeline has been applied to a url that validateUrl accepts
ValidUrlProcessed == output.kind = "urls" /\ output.validation.isValid

\* C14: normalizeUrl is idempotent: for every valid URL u,
\* normalizeUrl(normalizeUrl(u)) = normalizeUrl(u).
C14_NormalizeIdempotent ==
    ValidUrlProcessed => output.again = output.normalizedUrl

\* a short link was normalized to another URL, and normalizing that again
\* gave the same
C14_Witness ==
    /\ ValidUrlProcessed
    /\ input.a = YoutuBeX
    /\ output.normalizedUrl # input.a
    /\ output.again = output.normalizedUrl

\* C15: the youtu.be, www.youtube.com/watch and m.youtube.com/watch forms
\* of a video id normalize to the same string, and forms of different
\* video ids never do.
C15_AliasFolding ==
    \A x, y \in VideoIds :
        (output.kind = "urls" /\ input.a \in AliasForms(x) /\ input.b \in AliasForms(y)) =>
            (output.normalizedUrl = output.other <=> x = y)

\* https://youtu.be/X and https://m.youtube.com/watch?v=X were normalized
\* to one string
C15_Witness ==
    /\ output.kind = "urls"
    /\ input.a = YoutuBeX
    /\ input.b = Url("https", "m.youtube.com", "/watch", "X", FALSE)
    /\ output.normalizedUrl = output.other

\* C16: validateUrl returns valid for every well-formed http or https URL
\* and invalid with a non-empty reason for ftp:, javascript: and data:
\* URLs, for an empty host or the host ".com", and for strings that are no
\* URLs.
C16_ValidateUrlVerdicts ==
    output.kind = "urls" =>
        /\ (input.a.scheme \in {"http", "https"} /\ input.a.host \notin {"", ".com"})
             => output.validation.isValid
        /\ ( \/ input.a.scheme \in {"ftp", "javascript", "data", ""}
             \/ input.a.host \in {"", ".com"} )
             => (~output.validation.isValid /\ output.validation.error # "")

\* "ftp://example.com" was rejected with a reason
C16_Witness ==
    /\ output.kind = "urls"
    /\ input.a = Url("ftp", "example.com", "", "", FALSE)
    /\ ~output.validation.isValid
    /\ output.validation.error # ""

\* C17: detectPlatform returns "youtube" exactly when the host is one of
\* youtube.com, www.youtube.com, m.youtube.com, youtu.be, and "generic" for
\* every other valid URL; the platform register passes to the store is that
\* value, whatever platform the caller sent in the body.
C17_PlatformDerivedFromHost ==
    ValidUrlProcessed =>
        LET known == LowerCase(input.a.host) \in
                       {"youtube.com", "www.youtube.com", "m.youtube.com", "youtu.be"}
        IN /\ output.platform = IF known THEN "youtube" ELSE "generic"
           /\ output.data.platform = output.platform

\* a youtu.be link sent with no platform and an example.com link sent with
\* platform "youtube" are the two cases
C17_Witness ==
    /\ ValidUrlProcessed
    /\ input.a = ExamplePath
    /\ input.platform = "youtube"
    /\ output.data.platform = "generic"

\* C18: for every integer page and limit supplied, the effective limit is
\* at most 100, the effective page is at least 1 (a page below 1 is taken
\* as 1) and the computed skip is never negative.
C18_PaginationBounds ==
    output.kind = "pagination" =>
        /\ output.limit <= MaxLimit
        /\ output.page >= 1
        /\ (input.page # <<>> /\ input.page[1] < 1) => output.page = 1
        /\ output.skip >= 0

C20_ListFilteredOrderedBounded ==
    /\ [](\A r \in Requests :
            (req[r].op = "list" /\ Done(r) /\ resp[r].status = 200) =>
              LET media == resp[r].body.media
                  query == req[r].query IN
              /\ \A i \in 1..Len(media) :
                   /\ \E j \in 1..Len(store) : store[j] = media[i]
                   /\ query.platform # "" => media[i].platform = query.platform
                   /\ query.type # "" => media[i].type = query.type
                   /\ query.status # "" => media[i].extractionStatus = query.status
              /\ \A i, j \in 1..Len(media) :
                   i < j => media[i].createdAt > media[j].createdAt
              /\ Len(media) <= resp[r].body.pagination.limit
              /\ resp[r].body.pagination.limit <= MaxLimit)
    /\ [][\A r \in Requests :
            (req[r].op = "list" /\ req[r].pc \in {"handler", "reads"} /\ req'[r] # req[r])
              => store' = store]_vars

\* two items are stored, one list without filters returned both, and one
\* for platform youtube and status pending returned none of them
C20_Witness ==
    \E r, g \in Requests :
        /\ req[r].op = "list" /\ Done(r) /\ resp[r].status = 200
        /\ req[r].query = NoQuery
        /\ Len(resp[r].body.media) = 2
        /\ req[g].op = "list" /\ Done(g) /\ resp[g].status = 200
        /\ req[g].query.platform = "youtube" /\ req[g].query.status = "pending"
        /\ Len(store) = 2
        /\ resp[g].body.media = <<>>

\* C21: a store failure other than a duplicate key is answered at once
\* with a 5xx status: the handler issues no further store call, sends no
\* success, and the failure step leaves the store as it was.
C21_StoreFailureSurfaced ==
    /\ [](\A r \in Requests :
            req[r].failed =>
              /\ Done(r)
              /\ resp[r].status >= 500 /\ resp[r].status < 600)
    /\ [][\A r \in Requests :
            /\ (~req[r].failed /\ req'[r].failed) => (store' = store /\ nextId' = nextId)
            /\ req[r].failed => (storeCalls'[r] = storeCalls[r] /\ resp'[r] = resp[r])]_vars

\* the create of a registration failed after its findOne had found nothing
C21_Witness ==
    \E r \in Requests :
        /\ req[r].op = "register"
        /\ req[r].failed
        /\ storeCalls[r] = 2
        /\ store = <<>>
        /\ resp[r].status = 500

\* the store round trips request r has waited for one after another: the
\* two reads of a list or search are issued together and count as one
RoundTrips(r) ==
    IF req[r].op \in {"list", "search"}
      THEN IF storeCalls[r] > 0 THEN 1 ELSE 0
      ELSE storeCalls[r]

\* C22 as stated: every handler, register included, issues at most one
\* sequential store call between receiving the request and responding.
C22_SingleRoundTrip ==
    \A r \in Requests : RoundTrips(r) <= 1

\* C22 as amended: register waits for at most two store calls one after
\* the other (findOne, and create only when findOne found nothing); every
\* other handler waits for at most one round trip, list and search issuing
\* their two reads together in one step.
C22_RoundTripsBounded ==
    /\ [](\A r \in Requests :
            /\ RoundTrips(r) <= IF req[r].op = "register" THEN 2 ELSE 1
            /\ (Done(r) /\ storeCalls[r] = 2 /\ req[r].op = "register") =>
                 /\ resp[r].status \in {201, 500}
                 /\ resp[r].status = 201 => findById(resp[r].body.item.id) # NoItem)
    /\ [][\A r \in Requests :
            (req[r].op \in {"list", "search"} /\ storeCalls[r] > 0) =>
               storeCalls'[r] = storeCalls[r]]_vars

\* a registration created its item after two store calls, and a list was
\* answered after issuing its two reads
C22_Witness ==
    \E r, g \in Requests :
        /\ req[r].op = "register" /\ resp[r].status = 201 /\ storeCalls[r] = 2
        /\ req[g].op = "list" /\ Done(g) /\ resp[g].status = 200 /\ storeCalls[g] = 2

\* C23: under every interleaving a register answers 201 only in the step
\* in which its own create inserted the returned item, and answers 200
\* only with an item that was stored when it was looked up; either way
\* the item's normalizedUrl is normalizeUrl of the submitted url.
C23_StatusTellsCreation ==
    [][\A r \in Requests :
         (req'[r].op = "register" /\ resp'[r] # resp[r]) =>
           /\ resp'[r].status = 201 =>
                /\ findById(resp'[r].body.item.id) = NoItem
                /\ store' = Append(store, resp'[r].body.item)
                /\ resp'[r].body.item.normalizedUrl = normalizeUrl(req'[r].url)
           /\ resp'[r].status = 200 =>
                /\ \E i \in 1..Len(store) : store[i] = resp'[r].body.item
                /\ store' = store
                /\ resp'[r].body.item.normalizedUrl = normalizeUrl(req'[r].url)]_vars

\* two registrations of one canonical URL overlapped: one was answered 201,
\* the other, received before that answer, 200
C23_Witness ==
    \E r, s \in Requests :
        /\ r # s
        /\ ValidRegister(r) /\ ValidRegister(s)
        /\ resp[r].status = 201
        /\ resp[s].status = 200
        /\ r \notin prior[s]
        /\ resp[s].body.item = resp[r].body.item

\* C24: a registration of a URL whose canonical form is already stored
\* writes nothing: no step of it changes the store (url, platform,
\* extractionStatus and updatedAt of the existing record included), also
\* when the raw url submitted differs from the stored url.
C24_KnownUrlWritesNothing ==
    [][\A r \in Requests :
         ( /\ req'[r].op = "register"
           /\ req'[r] # req[r]
           /\ StoredFor(normalizeUrl(req'[r].url)) # {} ) =>
             /\ store' = store
             /\ nextId' = nextId]_vars

\* a registration was answered 200 with a record whose url is not the one
\* it submitted, and the record is still stored as it was created
C24_Witness ==
    \E r \in Requests :
        /\ ValidRegister(r) /\ resp[r].status = 200
        /\ resp[r].body.item.url # req[r].url
        /\ findById(resp[r].body.item.id) = resp[r].body.item
        /\ resp[r].body.item.updatedAt = resp[r].body.item.createdAt

\* C25: two registrations in sequence of different raw URLs with one
\* canonical URL leave exactly one stored item; the second is answered with
\* the first item's id and with the url submitted first.
C25_AliasRegisteredOnce ==
    \A r, s \in Requests :
        ( /\ r \in prior[s]
          /\ ValidRegister(r) /\ ValidRegister(s) /\ Done(s)
          /\ req[r].url # req[s].url
          /\ normalizeUrl(req[r].url) = normalizeUrl(req[s].url)
          /\ resp[r].status = 201 ) =>
            /\ Cardinality(StoredFor(normalizeUrl(req[s].url))) = 1
            /\ resp[s].status = 200
            /\ resp[s].body.item.id = resp[r].body.item.id
            /\ resp[s].body.item.url = req[r].url
            /\ resp[s].body.item.url # req[s].url

\* https://youtu.be/X was registered, then
\* https://www.youtube.com/watch?v=X&utm_source=share, and both are answered
C25_Witness ==
    \E r, s \in Requests :
        /\ r \in prior[s]
        /\ req[r].op = "register" /\ req[r].url = YoutuBeX /\ resp[r].status = 201
        /\ req[s].op = "register" /\ req[s].url = YouTubeWatchX /\ Done(s)
        /\ Len(store) = 1

\* C26: in every reachable state every stored item has
\* normalizedUrl = normalizeUrl(url) and platform = detectPlatform(url),
\* whatever operations, updates included, produced the state.
C26_DerivedFieldsStayDerived ==
    \A i \in 1..Len(store) :
        /\ store[i].normalizedUrl = normalizeUrl(store[i].url)
        /\ store[i].platform = detectPlatform(store[i].url)

\* the items of pages 1..n, one page after the other
RECURSIVE PagesUpTo(_)
PagesUpTo(n) ==
    IF n <= 0 THEN <<>> ELSE PagesUpTo(n - 1) \o output.pages[n].body.media

\* C27: with a quiescent store and a fixed filter and limit, total is the
\* number of matching items, totalPages = ceil(total/limit), pages
\* 1..totalPages together hold every matching item exactly once, every
\* page beyond totalPages is empty, hasNext iff page < totalPages and
\* hasPrev iff page > 1.
C27_PagesPartitionMatches ==
    (output.kind = "pages" /\ Len(output.pages) = MaxPages) =>
        LET matching == Matching("list", input.query)
            limit == output.pages[1].body.pagination.limit
            totalPages == output.pages[1].body.pagination.totalPages IN
        /\ \A p \in 1..MaxPages :
             /\ output.pages[p].status = 200
             /\ output.pages[p].body.pagination.total = Len(matching)
             /\ output.pages[p].body.pagination.totalPages = totalPages
             /\ output.pages[p].body.pagination.hasNext = (p < totalPages)
             /\ output.pages[p].body.pagination.hasPrev = (p > 1)
             /\ p > totalPages => output.pages[p].body.media = <<>>
        /\ totalPages * limit >= Len(matching)
        /\ (totalPages - 1) * limit < Len(matching) \/ Len(matching) = 0
        /\ totalPages >= 0 /\ totalPages <= MaxPages
        /\ PagesUpTo(totalPages) = matching

\* C20 on the pages of PagedSpec: every page answered holds only stored
\* items that satisfy every filter supplied, newest first, and at most
\* limit of them.
C20_PageFilteredOrderedBounded ==
    output.kind = "pages" =>
        \A p \in 1..Len(output.pages) :
            output.pages[p].status = 200 =>
              LET media == output.pages[p].body.media
                  query == input.query IN
              /\ \A i \in 1..Len(media) :
                   /\ \E j \in 1..Len(store) : store[j] = media[i]
                   /\ query.platform # "" => media[i].platform = query.platform
                   /\ query.type # "" => media[i].type = query.type
                   /\ query.status # "" => media[i].extractionStatus = query.status
              /\ \A i, j \in 1..Len(media) :
                   i < j => media[i].createdAt > media[j].createdAt
              /\ Len(media) <= output.pages[p].body.pagination.limit

\* C28: a list or search response describes one store state, also with
\* registrations running beside it: the page never holds more items than
\* total, and a first page that the limit does not cut short holds exactly
\* total items.
C28_PageAndTotalAgree ==
    \A r \in Requests :
        (req[r].op \in {"list", "search"} /\ Done(r) /\ resp[r].status = 200) =>
          LET media == resp[r].body.media
              pagination == resp[r].body.pagination IN
          /\ Len(media) <= pagination.total
          /\ (pagination.page = 1 /\ pagination.total <= pagination.limit)
               => Len(media) = pagination.total

\* a received request is being handled
InFlight(r) == req[r].pc \notin {"idle", "done"}

\* C29: every request whose store calls are answered gets exactly one
\* response: on every handler path (missing url, invalid url, existing
\* item, created item, not found, store error) a response is sent once and
\* never replaced, and no request stays pending after its last store call
\* has returned.
C29_ExactlyOneResponse ==
    /\ [](\A r \in Requests : Done(r) <=> resp[r] # NoResp)
    /\ [][\A r \in Requests :
            resp[r] # NoResp => (resp'[r] = resp[r] /\ req'[r] = req[r])]_vars
    /\ \A r \in Requests : InFlight(r) ~> Done(r)

\* one registration ended in a store error and a getById in not found,
\* and both are answered
C29_Witness ==
    \E r, g \in Requests :
        /\ req[r].op = "register" /\ req[r].failed /\ Done(r) /\ resp[r].status = 500
        /\ req[g].op = "getById" /\ ~req[g].failed /\ Done(g) /\ resp[g].status = 404

====
